---- MODULE Spec2Model ----
(***************************************************************************)
(* Model of scholar_fetcher.py: the SQLite record store written by         *)
(* ScholarMonitor.store_publication, the extractor parse_scholar_email,    *)
(* the per-pass loop process_new_alerts and the outer loop                 *)
(* monitor_scholar_alerts.                                                 *)
(*                                                                         *)
(* Text is modelled by TLA+ strings, character by character (Len, SubSeq). *)
(* Optional values are <<>> (Python None, SQL NULL) or <<v>>.              *)
(* The columns url, scholar_url and notification_date / process_date carry *)
(* no constraint and are read by nothing; they are left out of the rows.   *)
(***************************************************************************)
EXTENDS Integers, Sequences, FiniteSets, TLC

VARIABLES
    pubs,         \* table publications: rows in insertion order
    marks,        \* table processed_emails: rows in insertion order
    calls,        \* number of store_publication calls made so far
    lastPub,      \* argument of the latest store_publication call (<<>>: none yet)
    lastOutcome,  \* how the latest store_publication call ended
    lastFault,    \* the storage fault injected into the latest call
    prePubs,      \* publications as it was when the latest call began
    preMarks,     \* processed_emails as it was when the latest call began
    repeated,     \* the latest call had the same argument as the call before it
    prevOutcome,  \* how the call before the latest ended
    prev2Pubs,    \* publications as it was when the call before the latest began
    prev2Marks,   \* processed_emails as it was when the call before the latest began
    mailbox,      \* the alert messages of INBOX, by message number
    seen,         \* the message numbers that carry the \Seen flag
    timeBound,    \* the global name "time" is bound (the file runs as __main__)
    clockYear,    \* datetime.now().year
    pc,           \* where monitor_scholar_alerts / process_new_alerts stands
    passNo,       \* passes started so far
    queue,        \* message_numbers[0].split() of the current pass
    cur,          \* position in queue of the message being processed
    email_message,\* the message fetched for the current iteration
    publication,  \* what parse_scholar_email returned for it
    raising,      \* an exception is travelling through the finally block
    transportFailed, \* the current pass was aborted by the mail transport
    attempted,    \* this pass: message numbers whose iteration began, in order
    outcomeOf,    \* this pass: how store_publication ended for each message
    markIssued,   \* this pass: message numbers a +FLAGS \Seen command was sent for
    faulty,       \* this pass: message numbers an exception was raised for
    errors,       \* this pass: message numbers logger.error was called for
    noRecord      \* this pass: message numbers parse_scholar_email gave None for

storeVars == <<pubs, marks, calls, lastPub, lastOutcome, lastFault, prePubs, preMarks,
               repeated, prevOutcome, prev2Pubs, prev2Marks>>

monitorVars == <<mailbox, seen, timeBound, clockYear, pc, passNo, queue, cur,
                 email_message, publication, raising, transportFailed, attempted,
                 outcomeOf, markIssued, faulty, errors, noRecord>>

vars == <<storeVars, monitorVars>>

-----------------------------------------------------------------------------
\* Bounds of the model.

\* store_publication calls in one behaviour of SpecStore.
MaxCalls == 3

\* Messages in the inbox.
NMsgs == 3

\* Passes of the monitoring loop in one behaviour.
MaxPasses == 2

-----------------------------------------------------------------------------
\* Optional values.

None == <<>>

Some(v) == <<v>>

-----------------------------------------------------------------------------
\* Text helpers (Python str methods and the regular expression of
\* parse_scholar_email), character by character.

\* Characters str.strip() removes and \s matches.
Whitespace == {" ", "\t", "\n", "\r"}

\* Characters \d matches.
Digits == {"0", "1", "2", "3", "4", "5", "6", "7", "8", "9"}

CharAt(s, i) == SubSeq(s, i, i)

\* The text from position i to the end.
From(s, i) == SubSeq(s, i, Len(s))

RECURSIVE LStrip(_)
LStrip(s) ==
    IF Len(s) > 0 /\ CharAt(s, 1) \in Whitespace THEN LStrip(From(s, 2)) ELSE s

RECURSIVE RStrip(_)
RStrip(s) ==
    IF Len(s) > 0 /\ CharAt(s, Len(s)) \in Whitespace
    THEN RStrip(SubSeq(s, 1, Len(s) - 1))
    ELSE s

\* str.strip()
Strip(s) == LStrip(RStrip(s))

\* Tag.get_text(strip=True): every text node stripped, the empty ones
\* dropped, the rest concatenated with no separator.
RECURSIVE GetTextStrip(_)
GetTextStrip(strings) ==
    IF strings = <<>> THEN ""
    ELSE Strip(strings[1]) \o GetTextStrip(Tail(strings))

\* str.find(sep): the first position sep occurs at, 0 when it does not.
Find(s, sep) ==
    LET hits == {i \in 1..(Len(s) - Len(sep) + 1) :
                    SubSeq(s, i, i + Len(sep) - 1) = sep} IN
    IF hits = {} THEN 0 ELSE CHOOSE i \in hits : \A j \in hits : i <= j

\* sep in s
Contains(s, sep) == Find(s, sep) # 0

\* s.split(sep, 1) for an s that contains sep.
SplitOnce(s, sep) ==
    LET i == Find(s, sep) IN
    <<SubSeq(s, 1, i - 1), From(s, i + Len(sep))>>

\* s.split(sep): always at least one piece.
RECURSIVE Split(_, _)
Split(s, sep) ==
    IF Contains(s, sep)
    THEN <<SplitOnce(s, sep)[1]>> \o Split(SplitOnce(s, sep)[2], sep)
    ELSE <<s>>

\* [author.strip() for author in authors_part.split(',')]
StripAll(pieces) == [i \in 1..Len(pieces) |-> Strip(pieces[i])]

\* int() of a string of decimal digits.
DigitValue(c) ==
    CASE c = "0" -> 0 [] c = "1" -> 1 [] c = "2" -> 2 [] c = "3" -> 3
      [] c = "4" -> 4 [] c = "5" -> 5 [] c = "6" -> 6 [] c = "7" -> 7
      [] c = "8" -> 8 [] c = "9" -> 9

RECURSIVE ToInt(_)
ToInt(s) ==
    IF s = "" THEN 0
    ELSE 10 * ToInt(SubSeq(s, 1, Len(s) - 1)) + DigitValue(CharAt(s, Len(s)))

\* Where \s*(\d{4}) matches when tried at position i: the position of the
\* four digits, 0 when it does not match.
RECURSIVE YearAt(_, _)
YearAt(s, i) ==
    IF i <= Len(s) /\ CharAt(s, i) \in Whitespace THEN YearAt(s, i + 1)
    ELSE IF /\ i + 3 <= Len(s)
            /\ \A k \in i..(i + 3) : CharAt(s, k) \in Digits
         THEN i
         ELSE 0

\* re.match(r'(.*?),\s*(\d{4})', venue_part): the lazy group stops at the
\* first comma that whitespace and four digits follow; '.' does not cross a
\* newline. <<>> when there is no match, else <<group(1), group(2)>>.
VenueMatch(venue_part) ==
    LET commas == {i \in 1..Len(venue_part) :
                      /\ CharAt(venue_part, i) = ","
                      /\ ~Contains(SubSeq(venue_part, 1, i - 1), "\n")
                      /\ YearAt(venue_part, i + 1) # 0} IN
    IF commas = {} THEN None
    ELSE LET c == CHOOSE i \in commas : \A j \in commas : i <= j
             y == YearAt(venue_part, c + 1) IN
         <<SubSeq(venue_part, 1, c - 1), SubSeq(venue_part, y, y + 3)>>

-----------------------------------------------------------------------------
\* The extractor.
\*
\* An email message is [message_id, multipart, parts]: parts are the parts
\* walk() yields that are not containers (a single-part message is its own
\* only part). A part is [content_type, decodable, html]: decodable is
\* whether get_payload(decode=True).decode() succeeds, html the document it
\* decodes to (None: the empty string). A document is what BeautifulSoup
\* finds in it: title_link, the first <a class="gse_alrt_title"> (None, or
\* its text nodes), and byline, the first <div> whose style holds #006621
\* (None, or its text nodes).

\* The first part walk() yields with content type text/html, 0 if none.
FirstHtmlPart(parts) ==
    LET hits == {i \in 1..Len(parts) : parts[i].content_type = "text/html"} IN
    IF hits = {} THEN 0 ELSE CHOOSE i \in hits : \A j \in hits : i <= j

\* The part whose payload becomes html_content, 0 if none.
HtmlPart(msg) ==
    IF msg.multipart THEN FirstHtmlPart(msg.parts)
    ELSE IF msg.parts[1].content_type = "text/html" THEN 1 ELSE 0

\* authors, venue and year out of the byline text.
ParseByline(byline, now_year) ==
    LET default == [authors |-> <<>>, venue |-> None, year |-> now_year] IN
    IF byline = None THEN default
    ELSE LET text == GetTextStrip(byline[1]) IN
         IF ~Contains(text, " - ") THEN default
         ELSE LET halves == SplitOnce(text, " - ")
                  authors == StripAll(Split(halves[1], ","))
                  m == VenueMatch(halves[2]) IN
              IF m = None
              THEN [authors |-> authors, venue |-> None, year |-> now_year]
              ELSE [authors |-> authors,
                    venue |-> Some(Strip(m[1])),
                    year |-> ToInt(m[2])]

\* "if not title_link": a bs4 Tag is always true, so only a missing anchor
\* (find() returned None) is refused.
TitleMissing(title_link) == title_link = None

\* An exception is raised inside the try of parse_scholar_email: the HTML
\* payload does not decode.
ParseRaises(msg) == HtmlPart(msg) # 0 /\ ~msg.parts[HtmlPart(msg)].decodable

\* What parse_scholar_email does when anything inside its try raises.
ParseFault == [publication |-> None, log |-> "error"]

\* parse_scholar_email: the ScholarPublication (or None) and what it logs.
parse_scholar_email(msg, now_year) ==
    LET p == HtmlPart(msg) IN
    IF ParseRaises(msg) THEN ParseFault
    ELSE IF p = 0 \/ msg.parts[p].html = None
    THEN [publication |-> None, log |-> "warning: no html"]
    ELSE LET doc == msg.parts[p].html[1] IN
         IF TitleMissing(doc.title_link)
         THEN [publication |-> None, log |-> "warning: no title"]
         ELSE LET b == ParseByline(doc.byline, now_year) IN
              [publication |->
                   Some([title |-> GetTextStrip(doc.title_link[1]),
                         authors |-> b.authors,
                         venue |-> b.venue,
                         year |-> b.year,
                         email_id |-> msg.message_id]),
               log |-> "none"]

\* Messages the mail server may hold.
HtmlOf(title_link, byline) ==
    [content_type |-> "text/html", decodable |-> TRUE,
     html |-> Some([title_link |-> title_link, byline |-> byline])]

PlainPart == [content_type |-> "text/plain", decodable |-> TRUE, html |-> None]

MsgPaper ==
    [message_id |-> Some("<m1>"), multipart |-> FALSE,
     parts |-> <<HtmlOf(Some(<<"Deep Learning for X">>),
                        Some(<<"A. Smith, B. Lee - Journal of Y, 2023">>))>>]

\* The same paper announced by a second alert.
MsgPaperAgain ==
    [message_id |-> Some("<m2>"), multipart |-> TRUE,
     parts |-> <<PlainPart,
                 HtmlOf(Some(<<" Deep Learning for X ">>),
                        Some(<<"  A. Smith, B. Lee - Journal of Y, 2023 ">>))>>]

MsgNoYear ==
    [message_id |-> Some("<m3>"), multipart |-> FALSE,
     parts |-> <<HtmlOf(Some(<<"Graphs">>), Some(<<"C. Doe - arXiv preprint">>))>>]

MsgNoHtml ==
    [message_id |-> Some("<m4>"), multipart |-> TRUE, parts |-> <<PlainPart>>]

MsgNoTitle ==
    [message_id |-> Some("<m5>"), multipart |-> FALSE,
     parts |-> <<HtmlOf(None, Some(<<"D. Roe - Venue, 2021">>))>>]

\* The title anchor wraps no text (an image, or white space only).
MsgEmptyTitle ==
    [message_id |-> Some("<m6>"), multipart |-> FALSE,
     parts |-> <<HtmlOf(Some(<<" ">>), None)>>]

\* The HTML payload is not valid UTF-8: .decode() raises.
MsgUndecodable ==
    [message_id |-> Some("<m7>"), multipart |-> TRUE,
     parts |-> <<[content_type |-> "text/html", decodable |-> FALSE, html |-> None]>>]

\* No Message-ID header: email_message['Message-ID'] is None.
MsgNoId ==
    [message_id |-> None, multipart |-> FALSE,
     parts |-> <<HtmlOf(Some(<<"Trees">>), Some(<<"E. Poe - Venue, 2022">>))>>]

\* The order the alerts arrive in.
Arrivals ==
    <<MsgPaper, MsgPaperAgain, MsgUndecodable, MsgNoYear, MsgNoTitle,
      MsgEmptyTitle, MsgNoHtml, MsgNoId>>

-----------------------------------------------------------------------------
\* The record store.

\* ','.join(pub.authors)
RECURSIVE Join(_)
Join(authors) ==
    IF authors = <<>> THEN ""
    ELSE IF Len(authors) = 1 THEN authors[1]
    ELSE authors[1] \o "," \o Join(Tail(authors))

\* The row INSERT INTO publications builds from a ScholarPublication; id is
\* INTEGER PRIMARY KEY AUTOINCREMENT and no row is ever deleted.
PublicationRow(table, pub) ==
    [id |-> Len(table) + 1,
     title |-> pub.title,
     authors |-> Join(pub.authors),
     venue |-> pub.venue,
     year |-> pub.year,
     email_id |-> pub.email_id]

\* email_id TEXT UNIQUE: SQL NULLs never collide.
EmailIdTaken(table, email_id) ==
    /\ email_id # None
    /\ \E i \in 1..Len(table) : table[i].email_id = email_id

\* Variant with a seeded fault: the constraint declared as UNIQUE(title, authors, year, email_id).
TripleTaken_WithEmailId(table, row) ==
    \E i \in 1..Len(table) :
        /\ table[i].title = row.title
        /\ table[i].authors = row.authors
        /\ table[i].year = row.year
        /\ table[i].email_id = row.email_id

\* UNIQUE(title, authors, year) over the stored (joined) authors text.
TripleTaken(table, row) ==
    \E i \in 1..Len(table) :
        /\ table[i].title = row.title
        /\ table[i].authors = row.authors
        /\ table[i].year = row.year

\* Variant with a seeded fault: the table declared without UNIQUE(title, authors, year).
PublicationsConflict_IdOnly(table, pub) ==
    EmailIdTaken(table, pub.email_id)

\* The first INSERT raises sqlite3.IntegrityError.
PublicationsConflict(table, pub) ==
    \/ EmailIdTaken(table, pub.email_id)
    \/ TripleTaken(table, PublicationRow(table, pub))

\* email_id TEXT PRIMARY KEY of processed_emails: a rowid table, so NULL is
\* accepted and never collides.
ProcessedConflict(table, email_id) ==
    /\ email_id # None
    /\ \E i \in 1..Len(table) : table[i].email_id = email_id

ProcessedRow(pub) == [email_id |-> pub.email_id]

\* conn.commit(): the open transaction becomes the database.
Commit(committed, tx) == tx

\* Variant with a seeded fault: the except Exception branch without conn.rollback() on a
\* connection that keeps what was executed.
Rollback_Keep(committed, tx) == tx

\* conn.rollback() in the except Exception branch.
Rollback(committed, tx) == committed

\* conn.close() in the finally branch with a transaction still open (the
\* IntegrityError branch neither commits nor rolls back): sqlite3 discards
\* the uncommitted changes.
CloseUncommitted(committed, tx) == committed

\* Where a lower-level storage fault (anything but IntegrityError) strikes.
StoreFaults == {"none", "connect", "insert1", "insert2", "commit"}

\* Variant with a seeded fault: the connection opened with isolation_level=None (autocommit), so
\* each INSERT is durable as soon as it is executed.
store_publication_Autocommit(db, pub, fault) ==
    IF fault = "connect" THEN [db |-> db, outcome |-> "Raised"]
    ELSE IF fault = "insert1" THEN [db |-> db, outcome |-> "StorageError"]
    ELSE IF PublicationsConflict(db.pubs, pub)
    THEN [db |-> db, outcome |-> "AlreadyExists"]
    ELSE LET tx1 == [db EXCEPT !.pubs = Append(@, PublicationRow(@, pub))] IN
         IF fault = "insert2" THEN [db |-> tx1, outcome |-> "StorageError"]
         ELSE IF ProcessedConflict(tx1.marks, pub.email_id)
         THEN [db |-> tx1, outcome |-> "AlreadyExists"]
         ELSE LET tx2 == [tx1 EXCEPT !.marks = Append(@, ProcessedRow(pub))] IN
              IF fault = "commit"
              THEN [db |-> tx2, outcome |-> "StorageError"]
              ELSE [db |-> tx2, outcome |-> "Inserted"]

\* store_publication: the database it leaves and how it ended.
\*   Inserted       both INSERTs and the commit succeeded
\*   AlreadyExists  except sqlite3.IntegrityError
\*   StorageError   except Exception (logged, rolled back, swallowed)
\*   Raised         sqlite3.connect / conn.cursor sit outside the try: the
\*                  exception leaves store_publication
store_publication(db, pub, fault) ==
    IF fault = "connect" THEN [db |-> db, outcome |-> "Raised"]
    ELSE IF fault = "insert1"
    THEN [db |-> Rollback(db, db), outcome |-> "StorageError"]
    ELSE IF PublicationsConflict(db.pubs, pub)
    THEN [db |-> CloseUncommitted(db, db), outcome |-> "AlreadyExists"]
    ELSE LET tx1 == [db EXCEPT !.pubs = Append(@, PublicationRow(@, pub))] IN
         IF fault = "insert2"
         THEN [db |-> Rollback(db, tx1), outcome |-> "StorageError"]
         ELSE IF ProcessedConflict(tx1.marks, pub.email_id)
         THEN [db |-> CloseUncommitted(db, tx1), outcome |-> "AlreadyExists"]
         ELSE LET tx2 == [tx1 EXCEPT !.marks = Append(@, ProcessedRow(pub))] IN
              IF fault = "commit"
              THEN [db |-> Rollback(db, tx2), outcome |-> "StorageError"]
              ELSE [db |-> Commit(db, tx2), outcome |-> "Inserted"]

\* One call of store_publication with its bookkeeping.
StoreCall(pub, fault) ==
    LET r == store_publication([pubs |-> pubs, marks |-> marks], pub, fault) IN
    /\ pubs' = r.db.pubs
    /\ marks' = r.db.marks
    /\ calls' = calls + 1
    /\ lastPub' = Some(pub)
    /\ lastOutcome' = r.outcome
    /\ lastFault' = fault
    /\ prePubs' = pubs
    /\ preMarks' = marks
    /\ repeated' = (lastPub = Some(pub))
    /\ prevOutcome' = lastOutcome
    /\ prev2Pubs' = prePubs
    /\ prev2Marks' = preMarks

\* setup_database on a fresh file: both tables exist and are empty.
StoreInit ==
    /\ pubs = <<>>
    /\ marks = <<>>
    /\ calls = 0
    /\ lastPub = None
    /\ lastOutcome = "none"
    /\ lastFault = "none"
    /\ prePubs = <<>>
    /\ preMarks = <<>>
    /\ repeated = FALSE
    /\ prevOutcome = "none"
    /\ prev2Pubs = <<>>
    /\ prev2Marks = <<>>

\* Arguments a caller hands to store_publication.
StoreTitles == {"T1", "T2"}

StoreAuthors == {<<"A">>, <<"A", "B">>, <<"A,B">>}

StoreEmailIds == {None, Some("<m1>"), Some("<m2>")}

StoreInputs ==
    [title : StoreTitles, authors : StoreAuthors, venue : {None},
     year : {2023}, email_id : StoreEmailIds]

-----------------------------------------------------------------------------
\* The alert processor and the monitoring loop.

\* The years datetime.now().year may give while the monitor runs.
ClockYears == {2026}

Nums == 1..NMsgs

\* The ascending sequence of the numbers in a set: the order an IMAP SEARCH
\* lists its matches in.
RECURSIVE Ascending(_)
Ascending(S) ==
    IF S = {} THEN <<>>
    ELSE LET m == CHOOSE x \in S : \A y \in S : x <= y IN
         <<m>> \o Ascending(S \ {m})

\* Elements of a sequence.
Range(q) == {q[i] : i \in 1..Len(q)}

\* mail.search(None, '(UNSEEN FROM "scholaralerts-noreply@google.com")'):
\* every message of the model is from that sender.
SearchUnseen == Ascending(Nums \ seen)

\* The locals of process_new_alerts and the records of the pass are
\* dropped when the pass is left.
LeavePass ==
    /\ queue' = <<>>
    /\ cur' = 1
    /\ email_message' = None
    /\ publication' = None
    /\ raising' = FALSE
    /\ attempted' = <<>>
    /\ outcomeOf' = [n \in Nums |-> "none"]
    /\ markIssued' = <<>>
    /\ faulty' = {}
    /\ errors' = {}
    /\ noRecord' = {}

\* monitor.process_new_alerts() is called and connect_to_email runs: on a
\* failure it logs and re-raises before the try of process_new_alerts, so
\* the exception reaches the loop of monitor_scholar_alerts.
Connect ==
    /\ pc = "start"
    /\ passNo < MaxPasses
    /\ passNo' = passNo + 1
    /\ \E ok \in BOOLEAN :
        /\ transportFailed' = ~ok
        /\ pc' = IF ok THEN "search" ELSE "handler"
    /\ UNCHANGED <<storeVars, mailbox, seen, timeBound, clockYear, queue, cur,
                   email_message, publication, raising, attempted, outcomeOf,
                   markIssued, faulty, errors, noRecord>>

\* mail.search: a failure leaves through the finally block.
Search ==
    /\ pc = "search"
    /\ \E ok \in BOOLEAN :
        IF ok
        THEN /\ queue' = SearchUnseen
             /\ pc' = "fetch"
             /\ UNCHANGED <<raising, transportFailed>>
        ELSE /\ raising' = TRUE
             /\ transportFailed' = TRUE
             /\ pc' = "logout"
             /\ UNCHANGED queue
    /\ UNCHANGED <<storeVars, mailbox, seen, timeBound, clockYear, passNo, cur,
                   email_message, publication, attempted, outcomeOf, markIssued,
                   faulty, errors, noRecord>>

\* Variant with a seeded fault: the inner handler re-raises instead of "continue".
OnMessageFault_Abort == "logout"

\* The inner "except Exception: log; continue": on to the next message.
OnMessageFault == "fetch"

\* The inner handler of the for loop: logger.error names the message.
MessageFault(n) ==
    /\ faulty' = faulty \cup {n}
    /\ errors' = errors \cup {n}
    /\ cur' = cur + 1
    /\ pc' = OnMessageFault

\* mail.fetch(num, '(RFC822)') and message_from_bytes. The mailbox was
\* selected read-write and RFC822 is not a PEEK item, so an IMAP server sets
\* \Seen on the message it returns (RFC 3501, 6.4.5); a server that opened
\* the mailbox read-only does not.
Fetch ==
    /\ pc = "fetch"
    /\ cur <= Len(queue)
    /\ attempted' = Append(attempted, queue[cur])
    /\ \E ok \in BOOLEAN, implicitSeen \in BOOLEAN :
        IF ok
        THEN /\ email_message' = Some(mailbox[queue[cur]])
             /\ seen' = IF implicitSeen THEN seen \cup {queue[cur]} ELSE seen
             /\ pc' = "parse"
             /\ UNCHANGED <<cur, faulty, errors>>
        ELSE /\ MessageFault(queue[cur])
             /\ UNCHANGED <<email_message, seen>>
    /\ UNCHANGED <<storeVars, mailbox, timeBound, clockYear, passNo, queue,
                   publication, raising, transportFailed, outcomeOf, markIssued,
                   noRecord>>

\* publication = self.parse_scholar_email(email_message); "if publication:".
\* A fault inside the extractor is logged there and comes back as None.
Parse ==
    /\ pc = "parse"
    /\ LET r == parse_scholar_email(email_message[1], clockYear)
           n == queue[cur] IN
        /\ errors' = IF r.log = "error" THEN errors \cup {n} ELSE errors
        /\ faulty' = IF ParseRaises(email_message[1])
                     THEN faulty \cup {n} ELSE faulty
        /\ IF r.publication # None
           THEN /\ publication' = r.publication
                /\ pc' = "store"
                /\ UNCHANGED <<cur, noRecord>>
           ELSE /\ publication' = None
                /\ noRecord' = noRecord \cup {n}
                /\ cur' = cur + 1
                /\ pc' = "fetch"
    /\ email_message' = None
    /\ UNCHANGED <<storeVars, mailbox, seen, timeBound, clockYear, passNo, queue,
                   raising, transportFailed, attempted, outcomeOf, markIssued>>

\* Variant with a seeded fault: the message is flagged only when the record was newly inserted.
AfterStore_InsertedOnly(outcome) ==
    IF outcome = "Inserted" THEN "mark" ELSE "except"

\* What follows self.store_publication(publication): it returns None
\* whatever happened inside, so the next statement is mail.store; only an
\* exception that left it skips to the inner handler.
AfterStore(outcome) ==
    IF outcome = "Raised" THEN "except" ELSE "mark"

\* self.store_publication(publication)
Store ==
    /\ pc = "store"
    /\ \E fault \in StoreFaults :
        LET r == store_publication([pubs |-> pubs, marks |-> marks],
                                   publication[1], fault)
            out == r.outcome
            n == queue[cur] IN
            /\ pubs' = r.db.pubs
            /\ marks' = r.db.marks
            /\ outcomeOf' = [outcomeOf EXCEPT ![n] = out]
            /\ IF AfterStore(out) = "mark"
               THEN /\ pc' = "mark"
                    /\ faulty' = IF out = "StorageError"
                                 THEN faulty \cup {n} ELSE faulty
                    /\ errors' = IF out = "StorageError"
                                 THEN errors \cup {n} ELSE errors
                    /\ UNCHANGED cur
               ELSE MessageFault(n)
    /\ UNCHANGED <<calls, lastPub, lastOutcome, lastFault, prePubs, preMarks,
                   repeated, prevOutcome, prev2Pubs, prev2Marks>>
    /\ UNCHANGED <<mailbox, seen, timeBound, clockYear, passNo, queue,
                   email_message, publication, raising, transportFailed,
                   attempted, markIssued, noRecord>>

\* mail.store(num, '+FLAGS', '\\Seen')
Mark ==
    /\ pc = "mark"
    /\ markIssued' = Append(markIssued, queue[cur])
    /\ \E ok \in BOOLEAN :
        IF ok
        THEN /\ seen' = seen \cup {queue[cur]}
             /\ cur' = cur + 1
             /\ pc' = "fetch"
             /\ UNCHANGED <<faulty, errors>>
        ELSE /\ MessageFault(queue[cur])
             /\ UNCHANGED seen
    /\ publication' = None
    /\ UNCHANGED <<storeVars, mailbox, timeBound, clockYear, passNo, queue,
                   email_message, raising, transportFailed, attempted, outcomeOf,
                   noRecord>>

\* The for loop is exhausted (or an aborting fault left it): on to finally.
LoopDone ==
    /\ pc = "fetch"
    /\ cur > Len(queue)
    /\ pc' = "logout"
    /\ UNCHANGED <<storeVars, mailbox, seen, timeBound, clockYear, passNo, queue,
                   cur, email_message, publication, raising, transportFailed,
                   attempted, outcomeOf, markIssued, faulty, errors, noRecord>>

\* finally: mail.logout(). A pending exception, or one logout raises, goes
\* on to the loop of monitor_scholar_alerts.
Logout ==
    /\ pc = "logout"
    /\ \E ok \in BOOLEAN :
        /\ transportFailed' = (transportFailed \/ ~ok)
        /\ pc' = IF raising \/ ~ok THEN "handler" ELSE "sleep"
    /\ LeavePass
    /\ UNCHANGED <<storeVars, mailbox, seen, timeBound, clockYear, passNo>>

\* time.sleep(...) in monitor_scholar_alerts: "time" is imported only inside
\* the "if __name__ == '__main__'" block, so the name is bound when the file
\* runs as a script and raises NameError when the function is called from
\* an importing module.
TimeSleep(bound) == IF bound THEN "start" ELSE "NameError"

\* logger.info("Sleeping ..."); time.sleep(check_interval): a NameError is
\* caught by the except Exception of the loop.
Sleep ==
    /\ pc = "sleep"
    /\ pc' = IF TimeSleep(timeBound) = "start" THEN "start" ELSE "handler"
    /\ UNCHANGED <<storeVars, mailbox, seen, timeBound, clockYear, passNo, queue, cur,
                   email_message, publication, raising, transportFailed,
                   attempted, outcomeOf, markIssued, faulty, errors, noRecord>>

\* except Exception: logger.error(...); time.sleep(300). An exception raised
\* inside the handler leaves monitor_scholar_alerts: the monitor is dead.
Handler ==
    /\ pc = "handler"
    /\ pc' = IF TimeSleep(timeBound) = "start" THEN "start" ELSE "dead"
    /\ UNCHANGED <<storeVars, mailbox, seen, timeBound, clockYear, passNo, queue,
                   cur, email_message, publication, raising, transportFailed,
                   attempted, outcomeOf, markIssued, faulty, errors, noRecord>>

\* The inboxes the monitor is started on: NMsgs consecutive messages of
\* Arrivals, from any starting point (wrapping round).
Mailboxes ==
    {[n \in Nums |-> Arrivals[((start + n - 2) % Len(Arrivals)) + 1]] :
        start \in 1..Len(Arrivals)}

\* After ScholarMonitor(...) in monitor_scholar_alerts: the database is set
\* up, every alert in the inbox is unread, no pass has begun.
MonitorInit ==
    /\ mailbox \in Mailboxes
    /\ seen = {}
    /\ timeBound \in BOOLEAN
    /\ clockYear \in ClockYears
    /\ pc = "start"
    /\ passNo = 0
    /\ queue = <<>>
    /\ cur = 1
    /\ email_message = None
    /\ publication = None
    /\ raising = FALSE
    /\ transportFailed = FALSE
    /\ attempted = <<>>
    /\ outcomeOf = [n \in Nums |-> "none"]
    /\ markIssued = <<>>
    /\ faulty = {}
    /\ errors = {}
    /\ noRecord = {}

Init == StoreInit /\ MonitorInit

Next ==
    \/ Connect
    \/ Search
    \/ Fetch
    \/ Parse
    \/ Store
    \/ Mark
    \/ LoopDone
    \/ Logout
    \/ Sleep
    \/ Handler

Spec == Init /\ [][Next]_vars

\* The store on its own: store_publication called with any arguments, the
\* monitor idle.
IdleInit ==
    /\ mailbox = <<>>
    /\ seen = {}
    /\ timeBound = TRUE
    /\ clockYear \in ClockYears
    /\ pc = "idle"
    /\ passNo = 0
    /\ queue = <<>>
    /\ cur = 1
    /\ email_message = None
    /\ publication = None
    /\ raising = FALSE
    /\ transportFailed = FALSE
    /\ attempted = <<>>
    /\ outcomeOf = [n \in Nums |-> "none"]
    /\ markIssued = <<>>
    /\ faulty = {}
    /\ errors = {}
    /\ noRecord = {}

InitStore == StoreInit /\ IdleInit

StoreStep ==
    /\ calls < MaxCalls
    /\ \E pub \in StoreInputs, fault \in StoreFaults : StoreCall(pub, fault)
    /\ UNCHANGED monitorVars

SpecStore == InitStore /\ [][StoreStep]_vars

-----------------------------------------------------------------------------
\* Claims about the record store, checked under SpecStore.

\* The rows of a table that carry a record's (title, joined authors, year).
RowsWithTriple(table, pub) ==
    {i \in 1..Len(table) :
        /\ table[i].title = pub.title
        /\ table[i].authors = Join(pub.authors)
        /\ table[i].year = pub.year}

RowsWithEmailId(table, email_id) ==
    {i \in 1..Len(table) : table[i].email_id = email_id}

StorageFaultOutcomes == {"StorageError", "Raised"}

\* C1: store_publication(r) called twice in a row, the first call inserting:
\* the second call (unless a storage fault strikes it) ends AlreadyExists, it
\* changes neither table, and the two calls together leave exactly one
\* publications row and exactly one processed_emails row for r. A repeat of
\* a call that found r already present changes nothing either.
C1_Idempotent ==
    (repeated /\ prevOutcome \in {"Inserted", "AlreadyExists"}) =>
        /\ pubs = prePubs
        /\ marks = preMarks
        /\ lastOutcome \notin StorageFaultOutcomes => lastOutcome = "AlreadyExists"
        /\ prevOutcome = "Inserted" =>
            /\ Len(pubs) = Len(prev2Pubs) + 1
            /\ Len(marks) = Len(prev2Marks) + 1
            /\ RowsWithTriple(pubs, lastPub[1]) = {Len(pubs)}
            /\ pubs[Len(pubs)].email_id = lastPub[1].email_id
            /\ marks[Len(marks)].email_id = lastPub[1].email_id
            /\ lastPub[1].email_id # None =>
                /\ RowsWithEmailId(pubs, lastPub[1].email_id) = {Len(pubs)}
                /\ RowsWithEmailId(marks, lastPub[1].email_id) = {Len(marks)}

\* C1 witness: into a store that already holds another record, r is
\* inserted and then stored again, the second call ending AlreadyExists.
C1_Witness ==
    /\ repeated
    /\ prevOutcome = "Inserted"
    /\ lastOutcome = "AlreadyExists"
    /\ Len(prev2Pubs) >= 1
    /\ Len(pubs) = Len(prev2Pubs) + 1

\* C2: a record whose (title, joined authors, year) is already stored under
\* another message id is rejected (nothing is written; the call ends
\* AlreadyExists unless a storage fault strikes first), and no two
\* publications rows ever share a triple or a non-absent message id.
C2_DedupByTriple ==
    /\ \A i, j \in 1..Len(pubs) :
        i # j =>
            /\ ~(/\ pubs[i].title = pubs[j].title
                 /\ pubs[i].authors = pubs[j].authors
                 /\ pubs[i].year = pubs[j].year)
            /\ ~(pubs[i].email_id # None /\ pubs[i].email_id = pubs[j].email_id)
    /\ (lastPub # None /\ RowsWithTriple(prePubs, lastPub[1]) # {}) =>
        /\ pubs = prePubs
        /\ marks = preMarks
        /\ lastOutcome \notin StorageFaultOutcomes => lastOutcome = "AlreadyExists"

\* C2 witness: the triple was stored under another message id, the new
\* message id was unknown, and the call ended AlreadyExists.
C2_Witness ==
    /\ lastPub # None
    /\ lastOutcome = "AlreadyExists"
    /\ RowsWithTriple(prePubs, lastPub[1]) # {}
    /\ lastPub[1].email_id # None
    /\ RowsWithEmailId(prePubs, lastPub[1].email_id) = {}
    /\ \A i \in RowsWithTriple(prePubs, lastPub[1]) : prePubs[i].email_id # None

\* C3: in every reachable store state the two tables are coupled: they hold
\* the same number of rows and, for every message id (absent included), a
\* processed_emails row with that id exists iff a publications row does.
C3_MarkerCoupled ==
    /\ Len(marks) = Len(pubs)
    /\ \A e \in StoreEmailIds :
        (RowsWithEmailId(marks, e) # {}) <=> (RowsWithEmailId(pubs, e) # {})
    /\ \A i \in 1..Len(pubs) : marks[i].email_id = pubs[i].email_id

\* C3 witness: a storage fault struck the second INSERT after the first had
\* succeeded, in a store that holds rows.
C3_Witness ==
    /\ lastFault = "insert2"
    /\ lastOutcome = "StorageError"
    /\ Len(pubs) >= 1
    /\ Len(marks) >= 1

\* C4: a store_publication call that does not end Inserted leaves both
\* tables exactly as it found them.
C4_NoPartialWrite ==
    (lastPub # None /\ lastOutcome # "Inserted") =>
        /\ pubs = prePubs
        /\ marks = preMarks

\* C4 witness: the publications INSERT succeeded and the commit then failed.
C4_Witness ==
    /\ lastFault = "commit"
    /\ lastOutcome = "StorageError"
    /\ Len(prePubs) >= 1
    /\ pubs = prePubs

-----------------------------------------------------------------------------
\* Claims about the alert processor and the monitoring loop, checked under
\* Spec.

\* C5: a message whose store_publication call ended in a StorageError gets
\* no mark-read command in that pass.
C5_StorageErrorLeavesUnread ==
    \A n \in Nums : outcomeOf[n] = "StorageError" => n \notin Range(markIssued)

\* C6: a message parse_scholar_email gave no record for is not stored, gets
\* no mark-read command, and is still unread (a candidate of the next
\* search).
C6_NoRecordStaysUnread ==
    \A n \in noRecord :
        /\ outcomeOf[n] = "none"
        /\ n \notin Range(markIssued)
        /\ n \notin seen

\* The part of C6 that is about the commands process_new_alerts itself
\* sends: no store call and no mark-read command for such a message.
C6_NoStoreNoMarkCommand ==
    \A n \in noRecord : outcomeOf[n] = "none" /\ n \notin Range(markIssued)

\* C7: within a pass the messages of the search result are attempted one by
\* one in search order, each once; a fault while fetching, parsing, storing
\* or flagging one of them does not end the loop, which is left only when
\* every message was attempted; and logger.error was called for exactly the
\* messages a fault was raised for.
C7_BatchResilient ==
    /\ Len(attempted) <= Len(queue)
    /\ attempted = SubSeq(queue, 1, Len(attempted))
    /\ Len(attempted) = (IF pc \in {"parse", "store", "mark"} THEN cur ELSE cur - 1)
    /\ (pc = "logout" /\ ~raising) => attempted = queue
    /\ errors = faulty

\* C7 witness: three messages, the second raises inside parse_scholar_email,
\* the first and the third are inserted and the loop has ended.
C7_Witness ==
    /\ pc = "logout"
    /\ Len(queue) = 3
    /\ attempted = queue
    /\ ParseRaises(mailbox[queue[2]])
    /\ faulty = {queue[2]}
    /\ errors = {queue[2]}
    /\ outcomeOf[queue[1]] = "Inserted"
    /\ outcomeOf[queue[3]] = "Inserted"

\* C8: a mark-read command is sent for a message only after its
\* store_publication call has returned, and every message whose call ended
\* Inserted or AlreadyExists has had its mark-read command sent by the time
\* its iteration is over.
C8_MarkAfterStore ==
    /\ \A n \in Range(markIssued) :
        outcomeOf[n] \in {"Inserted", "AlreadyExists", "StorageError"}
    /\ \A i \in 1..Len(queue) :
        (i < cur /\ outcomeOf[queue[i]] \in {"Inserted", "AlreadyExists"}) =>
            queue[i] \in Range(markIssued)
    /\ \A i, j \in 1..Len(markIssued) : i # j => markIssued[i] # markIssued[j]

\* C8 witness: in one pass a message was inserted and flagged, and a second
\* one found its record already stored and was flagged too.
C8_Witness ==
    \E n, m \in Nums :
        /\ outcomeOf[n] = "Inserted"
        /\ outcomeOf[m] = "AlreadyExists"
        /\ n \in Range(markIssued)
        /\ m \in Range(markIssued)
        /\ cur > Len(queue)

\* C9: parse_scholar_email never returns a record with an empty title, and
\* no row with an empty title reaches the store.
C9_TitleNonEmpty ==
    /\ publication # None => publication[1].title # ""
    /\ \A i \in 1..Len(pubs) : pubs[i].title # ""

\* C10: a transport failure ends the pass only: the monitoring loop is
\* never left because of it.
C10_MonitorSurvivesTransportFault ==
    ~(pc = "dead" /\ transportFailed)

\* Run as a script ("time" bound), the loop is never left.
C10_ScriptNeverDies ==
    timeBound => pc # "dead"

====
